---- MODULE Spec2Model ----
(***************************************************************************)
(* Lexicographic breadth-first search by partition refinement, as          *)
(* implemented in networkx/algorithms/traversal/breadth_first_search.py    *)
(* (lexicographic_bfs, _sort_adjacency_lists, _append_to_adjacency_list).  *)
(*                                                                         *)
(* Vertices are the integers 0 .. n-1.  The linked structures of the code  *)
(* (vertex nodes, blocks) live in two arenas, `nodes` and `blocks`; a      *)
(* reference is the index of the object in its arena and None is the       *)
(* null reference.  The generator is modelled step by step: Call runs the  *)
(* code up to the while loop, Pop runs lines 701-717, Neighbor one         *)
(* iteration of the inner loop, Yield lines 784-785, Exhausted the exit    *)
(* of the while loop.                                                      *)
(*                                                                         *)
(* The plain traversals of the same file run on the same graph: `bfs` is   *)
(* a run of generic_bfs_edges (through bfs_edges) consumed by              *)
(* bfs_successors, `lay` a run of bfs_layers, `lab` a run of               *)
(* bfs_labeled_edges.  Each is a record of the generator's locals.  An     *)
(* adjacency iterator is the set of neighbours it has not returned yet;    *)
(* it may return them in any order.  Where code follows a yield inside a   *)
(* loop body (bfs_successors, bfs_layers) the suspended generator is a     *)
(* state of its own, pc = "suspended", and the code after the yield is the *)
(* next step.  The consumer does not modify the lists it is handed.        *)
(***************************************************************************)
EXTENDS Integers, Sequences, FiniteSets, TLC

\* ---------------------------------------------------------------- bounds
MaxN == 4          \* graphs have at most MaxN vertices
MaxOrderLen == 3   \* longest initial_order of distinct vertices of G
MaxBadLen == 2     \* longest initial_order that may repeat or miss G
MaxLoops == 1      \* self-loops in a graph
MaxDepth == 2      \* largest explicit depth_limit
MaxSources == 2    \* longest list of sources

\* Python's None: the null reference and the empty "vertex" field.
None == -1

VARIABLES
    n,              \* len(G.nodes); the vertices are 0 .. n-1
    edges,          \* the edges of G: {u, w} with u # w, or {u} for a self-loop
    minus,          \* the argument minus
    initial_order,  \* the argument initial_order (<< >> stands for None and [])
    pc,             \* where the generator stands
    err,            \* the exception that ended the generator, or "none"
    nodes,          \* arena of vertex nodes {"next", "prev", "vertex"}
    blocks,         \* arena of sets {"next", "prev", "set_head", ...}
    first_set,      \* reference to the first set of the chain, or None
    get_set,        \* vertex -> reference to its set, or None once popped
    neighborhoods,  \* vertex -> its adjacency list (the linked list, in order)
    order,          \* the dictionary `order`
    i,              \* the round counter
    v,              \* the vertex popped in the current round
    neighbor,       \* position of the cursor in neighborhoods[v], or None
    out,            \* the vertices yielded so far
    bfs,            \* generic_bfs_edges consumed by bfs_successors
    lay,            \* bfs_layers
    lab             \* bfs_labeled_edges

lexvars == <<n, edges, minus, initial_order, pc, err, nodes, blocks, first_set,
             get_set, neighborhoods, order, i, v, neighbor, out>>

vars == <<n, edges, minus, initial_order, pc, err, nodes, blocks, first_set,
          get_set, neighborhoods, order, i, v, neighbor, out, bfs, lay, lab>>

\* A traversal that is not run.
Idle == [pc |-> "idle"]

\* ----------------------------------------------------------------- graph
\* G.nodes
Vertices(k) == 0 .. (k - 1)

\* G.edges(x): the second endpoints of the edges at x (x itself for a loop)
Nbrs(E, x) == {u \in UNION E : {x, u} \in E}

Range(s) == {s[k] : k \in DOMAIN s}

\* Iteration order of a Python set of small non-negative ints: ascending.
RECURSIVE SetIter(_)
SetIter(S) ==
    IF S = {} THEN << >>
    ELSE LET m == CHOOSE x \in S : \A y \in S : x <= y
         IN  <<m>> \o SetIter(S \ {m})

\* No element of the sequence occurs twice.
Distinct(s) == \A a, b \in DOMAIN s : a # b => s[a] # s[b]

\* --------------------------------------------- _append_to_adjacency_list
\* The new node is linked in front of the list instead of behind (mutant).
AppendToAdjacencyListFront(E, x, adj) ==
    [u \in DOMAIN adj |->
        IF u \in Nbrs(E, x)
        THEN IF adj[u][1] = None THEN <<x>> ELSE <<x>> \o adj[u]
        ELSE adj[u]]

\* adj[u] is the list hanging from heads[u]; a fresh head has vertex None.
AppendToAdjacencyList(E, x, adj) ==
    [u \in DOMAIN adj |->
        IF u \in Nbrs(E, x)
        THEN IF adj[u][1] = None THEN <<x>> ELSE Append(adj[u], x)
        ELSE adj[u]]

RECURSIVE AppendAll(_, _, _)
AppendAll(E, vs, adj) ==
    IF vs = << >> THEN adj
    ELSE AppendAll(E, Tail(vs), AppendToAdjacencyList(E, Head(vs), adj))

\* ------------------------------------------------- _sort_adjacency_lists
\* The adjacency lists for a priority sequence `ord` of distinct vertices.
SortAdjacencyLists(k, E, ord) ==
    AppendAll(E, ord \o SetIter(Vertices(k) \ Range(ord)),
              [u \in Vertices(k) |-> <<None>>])

\* ------------------------------------------------------ lexicographic_bfs
\* Direction in which new sets are inserted: a new set T gets T[d1] = S and
\* takes S's place as S[d2].
Directions(m) ==
    IF m THEN [d1 |-> "prev", d2 |-> "next"] ELSE [d1 |-> "next", d2 |-> "prev"]

\* The stamp is only ever tested against its initial value (mutant).
NeedsNewSetOnce(last, r) == last = 0

\* Every vertex moved out of S gets a set of its own (mutant).
NeedsNewSetAlways(last, r) == TRUE

\* S has not yet been split in round r.
NeedsNewSet(last, r) == last < r

\* The new set is made the first set in minus mode as well (mutant).
PromoteAlways(S, fs, m) == S = fs

\* The new set is never made the first set (mutant).
PromoteNever(S, fs, m) == FALSE

\* A set placed in front of the first set becomes the first set.
Promote(S, fs, m) == S = fs /\ ~m

\* vertices.remove raises KeyError on an entry that is no vertex of G or
\* that an earlier entry already removed.
OrderFails(k, ord) == ~(Range(ord) \subseteq Vertices(k)) \/ ~Distinct(ord)

\* The initial ordered set: initial_order, then the other vertices.
InitialList(k, ord) ==
    IF ord # << >> THEN ord \o SetIter(Vertices(k) \ Range(ord))
    ELSE SetIter(Vertices(k))

State == [n |-> n, edges |-> edges, minus |-> minus,
          initial_order |-> initial_order, pc |-> pc, err |-> err,
          nodes |-> nodes, blocks |-> blocks, first_set |-> first_set,
          get_set |-> get_set, neighborhoods |-> neighborhoods,
          order |-> order, i |-> i, v |-> v, neighbor |-> neighbor,
          out |-> out]

Install(s) ==
    /\ n' = s.n /\ edges' = s.edges /\ minus' = s.minus
    /\ initial_order' = s.initial_order /\ pc' = s.pc /\ err' = s.err
    /\ nodes' = s.nodes /\ blocks' = s.blocks /\ first_set' = s.first_set
    /\ get_set' = s.get_set /\ neighborhoods' = s.neighborhoods
    /\ order' = s.order /\ i' = s.i /\ v' = s.v /\ neighbor' = s.neighbor
    /\ out' = s.out
    /\ UNCHANGED <<bfs, lay, lab>>

Begin(s) ==
    /\ n = s.n /\ edges = s.edges /\ minus = s.minus
    /\ initial_order = s.initial_order /\ pc = s.pc /\ err = s.err
    /\ nodes = s.nodes /\ blocks = s.blocks /\ first_set = s.first_set
    /\ get_set = s.get_set /\ neighborhoods = s.neighborhoods
    /\ order = s.order /\ i = s.i /\ v = s.v /\ neighbor = s.neighbor
    /\ out = s.out

\* The state before the first next(): nothing of the body has run.
Fresh(k, E, m, ord) ==
    [n |-> k, edges |-> E, minus |-> m, initial_order |-> ord,
     pc |-> "start", err |-> "none", nodes |-> << >>, blocks |-> << >>,
     first_set |-> None, get_set |-> << >>, neighborhoods |-> << >>,
     order |-> << >>, i |-> 0, v |-> None, neighbor |-> None, out |-> << >>]

Raise(s, e) == [s EXCEPT !.pc = "error", !.err = e]

\* Lines 642-699: the body up to the while loop.
CallStep(s) ==
    IF s.n = 0 THEN [s EXCEPT !.pc = "done"]
    ELSE IF OrderFails(s.n, s.initial_order) THEN Raise(s, "KeyError")
    ELSE
      LET lst == InitialList(s.n, s.initial_order)
          len == Len(lst)
      IN  [s EXCEPT
            !.nodes = [k \in 1 .. len |->
                        [next |-> IF k < len THEN k + 1 ELSE None,
                         prev |-> IF k > 1 THEN k - 1 ELSE None,
                         vertex |-> lst[k]]],
            !.neighborhoods = SortAdjacencyLists(s.n, s.edges, s.initial_order),
            !.blocks = << [next |-> None, prev |-> None, set_head |-> 1,
                           set_tail |-> len,
                           lookup |-> [x \in Range(lst) |->
                                         CHOOSE k \in 1 .. len : lst[k] = x],
                           last_processed |-> 0] >>,
            !.first_set = 1,
            !.get_set = [x \in Vertices(s.n) |-> 1],
            !.order = << >>,
            !.i = 1,
            !.pc = "loop"]

\* The new first set keeps its pointer to the emptied one (mutant).
ClearPrevNot(B, b) == B

\* `first_set["next"]["prev"] = None`
ClearPrev(B, b) == [B EXCEPT ![b].prev = None]

\* The popped vertex keeps its owner (mutant).
DisownNot(gs, x) == gs

\* `get_set[v] = None`
Disown(gs, x) == [gs EXCEPT ![x] = None]

\* Lines 702-717: pop the head of the first set.
PopStep(s) ==
    LET fs == s.first_set
        F  == s.blocks[fs]
    IN
    IF F.set_head = None THEN Raise(s, "TypeError")
    ELSE
      LET x  == s.nodes[F.set_head].vertex
          nh == s.nodes[F.set_head].next
      IN
      IF x \notin DOMAIN F.lookup THEN Raise(s, "KeyError")
      ELSE
        LET nodes1 == IF nh # None THEN [s.nodes EXCEPT ![nh].prev = None]
                      ELSE s.nodes
            b1 == [s.blocks EXCEPT
                     ![fs].set_head = nh,
                     ![fs].lookup = [y \in DOMAIN F.lookup \ {x} |-> F.lookup[y]]]
            b2 == IF nh = None /\ F.next # None
                  THEN ClearPrev(b1, F.next) ELSE b1
        IN  [s EXCEPT
              !.nodes = nodes1,
              !.blocks = b2,
              !.first_set = IF nh = None THEN F.next ELSE fs,
              !.get_set = Disown(s.get_set, x),
              !.v = x,
              !.neighbor = 1,
              !.pc = "neighbors"]

\* The cursor moves two nodes on (mutant).
AdvanceTwice(s) ==
    IF s.neighbor + 1 < Len(s.neighborhoods[s.v]) THEN s.neighbor + 2 ELSE None

\* `neighbor = neighbor["next"]`
Advance(s) ==
    IF s.neighbor < Len(s.neighborhoods[s.v]) THEN s.neighbor + 1 ELSE None

\* Lines 730-758: add u to T, the set next to S on the d2 side.
AddToT(s, u, S) ==
    LET d1 == Directions(s.minus).d1
        d2 == Directions(s.minus).d2
        B  == s.blocks[S]
        h  == Len(s.nodes) + 1
    IN
    IF NeedsNewSet(B.last_processed, s.i)
    THEN
      LET T  == Len(s.blocks) + 1
          Tr == (d1 :> S) @@ (d2 :> B[d2]) @@
                [set_head |-> h, set_tail |-> h, lookup |-> (u :> h),
                 last_processed |-> 0]
          b1 == IF B[d2] # None
                THEN [s.blocks EXCEPT ![B[d2]][d1] = T] ELSE s.blocks
          b2 == [b1 EXCEPT ![S][d2] = T, ![S].last_processed = s.i]
      IN  [s EXCEPT
            !.nodes = Append(s.nodes, [next |-> None, prev |-> None, vertex |-> u]),
            !.blocks = Append(b2, Tr),
            !.first_set = IF Promote(S, s.first_set, s.minus) THEN T
                          ELSE s.first_set,
            !.get_set = [s.get_set EXCEPT ![u] = T]]
    ELSE
      LET T  == B[d2]
          tl == s.blocks[T].set_tail
          n1 == [s.nodes EXCEPT ![tl].next = h]
      IN  [s EXCEPT
            !.nodes = Append(n1, [next |-> None, prev |-> tl, vertex |-> u]),
            !.blocks = [s.blocks EXCEPT
                          ![T].set_tail = h,
                          ![T].lookup = (u :> h) @@ s.blocks[T].lookup],
            !.get_set = [s.get_set EXCEPT ![u] = T]]

\* An emptied set stays in the chain (mutant).
EmptiedNever(set_head) == FALSE

\* `if not S["set_head"]`: the set has lost its last member.
Emptied(set_head) == set_head = None

\* u stays in S (mutant).
RemoveFromSNothing(s, u, S) == s

\* Lines 760-780: remove u from S and unlink S when it is left empty.
RemoveFromS(s, u, S) ==
    LET B   == s.blocks[S]
        old == B.lookup[u]
        O   == s.nodes[old]
        n1  == IF old = B.set_head THEN s.nodes
               ELSE [s.nodes EXCEPT ![O.prev].next = O.next]
        n2  == IF old = B.set_tail THEN n1
               ELSE [n1 EXCEPT ![O.next].prev = O.prev]
        sh  == IF old = B.set_head THEN O.next ELSE B.set_head
        st  == IF old = B.set_tail THEN O.prev ELSE B.set_tail
        b1  == [s.blocks EXCEPT
                  ![S].lookup = [y \in DOMAIN B.lookup \ {u} |-> B.lookup[y]],
                  ![S].set_head = sh,
                  ![S].set_tail = st]
        b2  == IF Emptied(sh) /\ B.prev # None
               THEN [b1 EXCEPT ![B.prev].next = B.next] ELSE b1
        b3  == IF Emptied(sh) /\ B.next # None
               THEN [b2 EXCEPT ![B.next].prev = B.prev] ELSE b2
    IN  [s EXCEPT
          !.nodes = n2,
          !.blocks = b3,
          !.first_set = IF Emptied(sh) /\ S = s.first_set THEN B.next
                        ELSE s.first_set]

\* The exception one iteration of the inner loop raises, or "none".
NeighborFault(s, u) ==
    IF u \notin DOMAIN s.get_set THEN "KeyError"
    ELSE IF s.get_set[u] = None THEN "none"
    ELSE
      LET S == s.get_set[u]
          B == s.blocks[S]
          T == B[Directions(s.minus).d2]
      IN
      IF ~NeedsNewSet(B.last_processed, s.i) /\ T = None THEN "TypeError"
      ELSE IF ~NeedsNewSet(B.last_processed, s.i) /\ s.blocks[T].set_tail = None
           THEN "TypeError"
      ELSE IF u \notin DOMAIN B.lookup THEN "KeyError"
      ELSE
        LET old == B.lookup[u]
            O   == s.nodes[old]
        IN
        IF old # B.set_head /\ O.prev = None THEN "TypeError"
        ELSE IF old # B.set_tail /\ O.next = None THEN "TypeError"
        ELSE "none"

\* Lines 719-782: one iteration of the inner loop.
NeighborStep(s) ==
    LET u == s.neighborhoods[s.v][s.neighbor]
        f == NeighborFault(s, u)
    IN
    IF f # "none" THEN Raise(s, f)
    ELSE IF s.get_set[u] = None THEN [s EXCEPT !.neighbor = Advance(s)]
    ELSE
      LET S  == s.get_set[u]
          s1 == AddToT(s, u, S)
          s2 == RemoveFromS(s1, u, S)
      IN  [s2 EXCEPT !.neighbor = Advance(s)]

\* Lines 784-785.
YieldStep(s) ==
    [s EXCEPT !.i = s.i + 1, !.out = Append(s.out, s.v), !.pc = "loop"]

\* One step of the generator's body from state s.
StepOf(s) ==
    CASE s.pc = "start" -> CallStep(s)
      [] s.pc = "loop" ->
            IF s.first_set = None THEN [s EXCEPT !.pc = "done"] ELSE PopStep(s)
      [] s.pc = "neighbors" ->
            IF s.neighbor = None THEN YieldStep(s) ELSE NeighborStep(s)
      [] OTHER -> s

\* list(lexicographic_bfs(G, minus, initial_order)): the generator consumed
\* until it is exhausted or raises.
RECURSIVE RunToEnd(_)
RunToEnd(s) == IF s.pc \in {"done", "error"} THEN s ELSE RunToEnd(StepOf(s))

\* --------------------------------------------------------------- actions
SimpleEdges(k) == {{a, b} : a, b \in Vertices(k)} \ {{a} : a \in Vertices(k)}

Loops(k) == {L \in SUBSET {{a} : a \in Vertices(k)} : Cardinality(L) <= MaxLoops}

\* The values of initial_order: the sequences of distinct vertices up to
\* length MaxOrderLen, and every sequence over 0 .. k (k is no vertex of G)
\* up to length MaxBadLen.
Orders(k) ==
    {ord \in UNION {[1 .. l -> Vertices(k)] : l \in 0 .. MaxOrderLen} :
        Distinct(ord)}
    \cup UNION {[1 .. l -> 0 .. k] : l \in 0 .. MaxBadLen}

Init ==
    \E k \in 0 .. MaxN :
    \E E \in SUBSET SimpleEdges(k) :
    \E L \in Loops(k) :
    \E m \in BOOLEAN :
    \E ord \in Orders(k) :
        /\ Begin(Fresh(k, E \cup L, m, ord))
        /\ bfs = Idle /\ lay = Idle /\ lab = Idle

Call == pc = "start" /\ Install(CallStep(State))

Pop == pc = "loop" /\ first_set # None /\ Install(PopStep(State))

Exhausted ==
    /\ pc = "loop" /\ first_set = None
    /\ pc' = "done"
    /\ UNCHANGED <<n, edges, minus, initial_order, err, nodes, blocks,
                   first_set, get_set, neighborhoods, order, i, v, neighbor, out>>
    /\ UNCHANGED <<bfs, lay, lab>>

Neighbor == pc = "neighbors" /\ neighbor # None /\ Install(NeighborStep(State))

Yield == pc = "neighbors" /\ neighbor = None /\ Install(YieldStep(State))

Next == Call \/ Pop \/ Exhausted \/ Neighbor \/ Yield

Spec == Init /\ [][Next]_vars

\* The path graph 0-1-2-3-4 in standard mode, under every initial_order.
PathEdges == {{0, 1}, {1, 2}, {2, 3}, {3, 4}}

InitPath ==
    \E ord \in Orders(Cardinality(UNION PathEdges)) :
        /\ Begin(Fresh(Cardinality(UNION PathEdges), PathEdges, FALSE, ord))
        /\ bfs = Idle /\ lay = Idle /\ lab = Idle

PathSpec == InitPath /\ [][Next]_vars

\* ------------------------------------------------------ generic_bfs_edges
\* G.is_directed() of the graphs modelled here.
IsDirected == FALSE

\* The guard of the while loop on the depth.
DepthAllowsInclusive(depth, depth_limit) == depth <= depth_limit

DepthAllows(depth, depth_limit) == depth < depth_limit

\* bfs_successors(G, source, depth_limit) before its first next().
BfsFresh(src, dl) ==
    [pc |-> "start", source |-> src, depth_limit |-> dl, seen |-> {},
     depth |-> 0, next_parents_children |-> << >>,
     this_parents_children |-> << >>, parent |-> None, children |-> {},
     yielded |-> << >>,
     succ_parent |-> None, succ_children |-> << >>, succ_out |-> << >>]

\* The body of the for loop of bfs_successors, run on the edge (p, c),
\* up to its `continue` or up to its yield, where the generator is
\* suspended with parent and children as they were.
SuccOnEdge(b, p, c) ==
    IF p = b.succ_parent
    THEN [b EXCEPT !.succ_children = Append(@, c)]
    ELSE [b EXCEPT !.succ_out = Append(@, <<b.succ_parent, b.succ_children>>),
                   !.pc = "suspended"]

\* The next next() after the yield inside the loop: the two assignments
\* that close the body, on the edge (p, c) the loop holds, which is the
\* last edge generic_bfs_edges yielded; the loop then asks for the next
\* edge and generic_bfs_edges goes on in its inner for loop.
SuccResumeStep(b) ==
    LET e == b.yielded[Len(b.yielded)] IN
    [b EXCEPT !.succ_children = <<e[2]>>,
              !.succ_parent = e[1],
              !.pc = "children"]

\* generic_bfs_edges returns: the for loop of bfs_successors ends and its
\* last statement yields the pending pair.
BfsReturn(b) ==
    [b EXCEPT !.succ_out = Append(@, <<b.succ_parent, b.succ_children>>),
              !.pc = "done"]

\* First next(): the locals of bfs_successors, then those of
\* generic_bfs_edges up to the while loop.
BfsStartStep(b, k) ==
    [b EXCEPT !.succ_parent = b.source,
              !.succ_children = << >>,
              !.depth_limit = IF @ = None THEN k ELSE @,
              !.seen = {b.source},
              !.depth = 0,
              !.next_parents_children = <<b.source>>,
              !.pc = "while"]

\* The test of the while loop and the two assignments that open its body.
BfsWhileStep(b) ==
    IF b.next_parents_children # << >> /\ DepthAllows(b.depth, b.depth_limit)
    THEN [b EXCEPT !.this_parents_children = b.next_parents_children,
                   !.next_parents_children = << >>,
                   !.pc = "for"]
    ELSE BfsReturn(b)

\* The outer for loop takes the next (parent, children) pair, or ends and
\* the depth grows.
BfsForStep(b, E) ==
    IF b.this_parents_children = << >>
    THEN [b EXCEPT !.depth = @ + 1, !.pc = "while"]
    ELSE [b EXCEPT !.parent = Head(b.this_parents_children),
                   !.children = Nbrs(E, Head(b.this_parents_children)),
                   !.this_parents_children = Tail(@),
                   !.pc = "children"]

\* The inner for loop on the child c that the iterator returns.
BfsChildStep(b, c) ==
    LET rest == [b EXCEPT !.children = @ \ {c}] IN
    IF c \notin b.seen
    THEN SuccOnEdge([rest EXCEPT !.seen = @ \cup {c},
                                 !.next_parents_children = Append(@, c),
                                 !.yielded = Append(@, <<b.parent, c>>)],
                    b.parent, c)
    ELSE rest

\* The iterator is exhausted: the early return when every node is seen.
BfsChildrenEndStep(b, k) ==
    IF Cardinality(b.seen) = k THEN BfsReturn(b) ELSE [b EXCEPT !.pc = "for"]

DepthLimits == {None} \cup (0 .. MaxDepth)

InitBfs ==
    \E k \in 1 .. MaxN :
    \E E \in SUBSET SimpleEdges(k) :
    \E L \in Loops(k) :
    \E src \in Vertices(k) :
    \E dl \in DepthLimits :
        /\ Begin(Fresh(k, E \cup L, FALSE, << >>))
        /\ bfs = BfsFresh(src, dl)
        /\ lay = Idle /\ lab = Idle

BfsStart ==
    /\ bfs.pc = "start"
    /\ bfs' = BfsStartStep(bfs, n)
    /\ UNCHANGED <<lexvars, lay, lab>>

BfsWhile ==
    /\ bfs.pc = "while"
    /\ bfs' = BfsWhileStep(bfs)
    /\ UNCHANGED <<lexvars, lay, lab>>

BfsFor ==
    /\ bfs.pc = "for"
    /\ bfs' = BfsForStep(bfs, edges)
    /\ UNCHANGED <<lexvars, lay, lab>>

BfsChild ==
    /\ bfs.pc = "children"
    /\ \E c \in bfs.children : bfs' = BfsChildStep(bfs, c)
    /\ UNCHANGED <<lexvars, lay, lab>>

BfsResume ==
    /\ bfs.pc = "suspended"
    /\ bfs' = SuccResumeStep(bfs)
    /\ UNCHANGED <<lexvars, lay, lab>>

BfsChildrenEnd ==
    /\ bfs.pc = "children" /\ bfs.children = {}
    /\ bfs' = BfsChildrenEndStep(bfs, n)
    /\ UNCHANGED <<lexvars, lay, lab>>

NextBfs ==
    BfsStart \/ BfsWhile \/ BfsFor \/ BfsChild \/ BfsResume \/ BfsChildrenEnd

BfsSpec == InitBfs /\ [][NextBfs]_vars

\* ------------------------------------------------------ bfs_labeled_edges
REVERSE_EDGE == "reverse"

TREE_EDGE == "tree"

FORWARD_EDGE == "forward"

LEVEL_EDGE == "level"

\* The keys of {s: 0 for s in sources}, in the order of their first
\* occurrence.
RECURSIVE Dedup(_)
Dedup(s) ==
    IF s = << >> THEN << >>
    ELSE LET t == Dedup(SubSeq(s, 1, Len(s) - 1)) IN
         IF s[Len(s)] \in Range(t) THEN t ELSE Append(t, s[Len(s)])

\* visit(u): visited.discard on a directed graph, visited.add otherwise.
VisitDiscard(visited, u, directed) == visited \ {u}

Visit(visited, u, directed) ==
    IF directed THEN visited \ {u} ELSE visited \cup {u}

\* bfs_labeled_edges(G, sources) before its first next().
LabFresh(srcs) ==
    [pc |-> "start", sources |-> srcs, directed |-> IsDirected,
     visited |-> {}, depth |-> << >>, queue |-> << >>,
     u |-> None, du |-> 0, neighbors |-> {}, yielded |-> << >>]

\* First next(): the locals up to the while loop.
LabStartStep(b) ==
    LET keys == Dedup(b.sources) IN
    [b EXCEPT !.visited = {},
              !.depth = [s \in Range(keys) |-> 0],
              !.queue = [k \in DOMAIN keys |-> <<keys[k], 0>>],
              !.pc = "loop"]

\* The test of the while loop and pop(); the for loop gets its iterator.
LabLoopStep(b, E) ==
    IF b.queue = << >> THEN [b EXCEPT !.pc = "done"]
    ELSE [b EXCEPT !.u = Head(b.queue)[1],
                   !.du = Head(b.queue)[2],
                   !.queue = Tail(@),
                   !.neighbors = Nbrs(E, Head(b.queue)[1]),
                   !.pc = "neighbors"]

\* The body of the for loop on the neighbour w that the iterator returns.
LabNeighborStep(b, w) ==
    LET rest == [b EXCEPT !.neighbors = @ \ {w}]
        emit(label) == [rest EXCEPT !.yielded = Append(@, <<b.u, w, label>>)]
    IN
    IF w \notin DOMAIN b.depth
    THEN LET dv == b.du + 1 IN
         [emit(TREE_EDGE) EXCEPT
             !.depth = [x \in DOMAIN b.depth \cup {w} |->
                           IF x = w THEN dv ELSE b.depth[x]],
             !.queue = Append(@, <<w, dv>>)]
    ELSE LET dv == b.depth[w] IN
         IF b.du = dv
         THEN IF w \notin b.visited THEN emit(LEVEL_EDGE) ELSE rest
         ELSE IF b.du < dv THEN emit(FORWARD_EDGE)
         ELSE IF b.directed THEN emit(REVERSE_EDGE)
         ELSE rest

\* The for loop is over: visit(u).
LabVisitStep(b) ==
    [b EXCEPT !.visited = Visit(@, b.u, b.directed), !.pc = "loop"]

\* The lists of sources: every sequence of nodes of G, repeats included.
SourceLists(k) == UNION {[1 .. l -> Vertices(k)] : l \in 0 .. MaxSources}

InitLab ==
    \E k \in 1 .. MaxN :
    \E E \in SUBSET SimpleEdges(k) :
    \E L \in Loops(k) :
    \E srcs \in SourceLists(k) :
        /\ Begin(Fresh(k, E \cup L, FALSE, << >>))
        /\ lab = LabFresh(srcs)
        /\ bfs = Idle /\ lay = Idle

LabStart ==
    /\ lab.pc = "start"
    /\ lab' = LabStartStep(lab)
    /\ UNCHANGED <<lexvars, bfs, lay>>

LabLoop ==
    /\ lab.pc = "loop"
    /\ lab' = LabLoopStep(lab, edges)
    /\ UNCHANGED <<lexvars, bfs, lay>>

LabNeighbor ==
    /\ lab.pc = "neighbors"
    /\ \E w \in lab.neighbors : lab' = LabNeighborStep(lab, w)
    /\ UNCHANGED <<lexvars, bfs, lay>>

LabVisit ==
    /\ lab.pc = "neighbors" /\ lab.neighbors = {}
    /\ lab' = LabVisitStep(lab)
    /\ UNCHANGED <<lexvars, bfs, lay>>

NextLab == LabStart \/ LabLoop \/ LabNeighbor \/ LabVisit

LabSpec == InitLab /\ [][NextLab]_vars

\* ------------------------------------------------------------- bfs_layers
\* bfs_layers(G, sources) before its first next().
LayFresh(srcs) ==
    [pc |-> "start", sources |-> srcs, current_layer |-> << >>,
     visited |-> {}, next_layer |-> << >>, rest |-> << >>, node |-> None,
     children |-> {}, layers |-> << >>]

\* First next(): the first layer, and the check that its nodes are in G.
LayStartStep(b, k) ==
    LET b1 == [b EXCEPT !.current_layer = b.sources,
                        !.visited = Range(b.sources)]
    IN  IF \E j \in DOMAIN b.sources : b.sources[j] \notin Vertices(k)
        THEN [b1 EXCEPT !.pc = "error"]
        ELSE [b1 EXCEPT !.pc = "while"]

\* The test of the while loop and the yield, where the generator is
\* suspended; the consumer holds the list current_layer itself.
LayWhileStep(b) ==
    IF b.current_layer = << >> THEN [b EXCEPT !.pc = "done"]
    ELSE [b EXCEPT !.layers = Append(@, b.current_layer),
                   !.pc = "suspended"]

\* The next next() after the yield: the empty next layer, and the for
\* loop takes its iterator over current_layer as it is now.
LayResumeStep(b) ==
    [b EXCEPT !.next_layer = << >>,
              !.rest = b.current_layer,
              !.pc = "for"]

\* The outer for loop takes the next node of the layer, or ends and the
\* next layer becomes the current one.
LayForStep(b, E) ==
    IF b.rest = << >>
    THEN [b EXCEPT !.current_layer = b.next_layer, !.pc = "while"]
    ELSE [b EXCEPT !.node = Head(b.rest),
                   !.rest = Tail(@),
                   !.children = Nbrs(E, Head(b.rest)),
                   !.pc = "children"]

\* The inner for loop on the child c that the iterator returns.
LayChildStepNoMark(b, c) ==
    IF c \notin b.visited
    THEN [b EXCEPT !.children = @ \ {c}, !.next_layer = Append(@, c)]
    ELSE [b EXCEPT !.children = @ \ {c}]

LayChildStep(b, c) ==
    IF c \notin b.visited
    THEN [b EXCEPT !.children = @ \ {c},
                   !.visited = @ \cup {c},
                   !.next_layer = Append(@, c)]
    ELSE [b EXCEPT !.children = @ \ {c}]

\* descendants_at_distance on the layers that bfs_layers(G, source)
\* yields: the layer numbered `distance` as a set, or the empty set.
DescendantsAtDistance(L, distance) ==
    IF \E j \in DOMAIN L : j - 1 = distance
    THEN Range(L[distance + 1])
    ELSE {}

\* The lists of sources, and one list that names a node that is not in G.
LayerSources(k) == SourceLists(k) \cup {<<k>>}

InitLay ==
    \E k \in 1 .. MaxN :
    \E E \in SUBSET SimpleEdges(k) :
    \E L \in Loops(k) :
    \E srcs \in LayerSources(k) :
        /\ Begin(Fresh(k, E \cup L, FALSE, << >>))
        /\ lay = LayFresh(srcs)
        /\ bfs = Idle /\ lab = Idle

LayStart ==
    /\ lay.pc = "start"
    /\ lay' = LayStartStep(lay, n)
    /\ UNCHANGED <<lexvars, bfs, lab>>

LayWhile ==
    /\ lay.pc = "while"
    /\ lay' = LayWhileStep(lay)
    /\ UNCHANGED <<lexvars, bfs, lab>>

LayResume ==
    /\ lay.pc = "suspended"
    /\ lay' = LayResumeStep(lay)
    /\ UNCHANGED <<lexvars, bfs, lab>>

LayFor ==
    /\ lay.pc = "for"
    /\ lay' = LayForStep(lay, edges)
    /\ UNCHANGED <<lexvars, bfs, lab>>

LayChild ==
    /\ lay.pc = "children"
    /\ \E c \in lay.children : lay' = LayChildStep(lay, c)
    /\ UNCHANGED <<lexvars, bfs, lab>>

LayChildrenEnd ==
    /\ lay.pc = "children" /\ lay.children = {}
    /\ lay' = [lay EXCEPT !.pc = "for"]
    /\ UNCHANGED <<lexvars, bfs, lab>>

NextLay ==
    LayStart \/ LayWhile \/ LayResume \/ LayFor \/ LayChild \/ LayChildrenEnd

LaySpec == InitLay /\ [][NextLay]_vars

\* ------------------------------------------------------------ vocabulary
Terminated == pc \in {"done", "error"}

ValidOrder == ~OrderFails(n, initial_order)

\* x and y are distinct and joined by an edge of G.
Adjacent(x, y) == x # y /\ {x, y} \in edges

\* x and y are joined in the complement of G.
CoAdjacent(x, y) == x # y /\ {x, y} \notin edges

\* The sequence holds every vertex of G exactly once.
IsOrdering(s) == Len(s) = n /\ Range(s) = Vertices(n)

\* The LexBFS neighbourhood-ordering law of the sequence s for adjacency A:
\* z before x before y, z joined to y and not to x, needs some w before z
\* joined to x and not to y.
LexLawAt(s, A(_, _), k, a, b) ==
    (k < a /\ a < b /\ A(s[k], s[b]) /\ ~A(s[k], s[a]))
        => \E w \in 1 .. (k - 1) : A(s[w], s[a]) /\ ~A(s[w], s[b])

LexLaw(s, A(_, _)) == \A k, a, b \in DOMAIN s : LexLawAt(s, A, k, a, b)

\* Some triple of the law has its premise true: a w is really needed.
LexLawUsed(s, A(_, _)) ==
    \E k, a, b \in DOMAIN s : k < a /\ a < b /\ A(s[k], s[b]) /\ ~A(s[k], s[a])

\* ---------------------------------------------------------------- claims

\* C1: fully consuming lexicographic_bfs(G) with a valid initial_order, in
\* either mode, ends without error having yielded every vertex of G exactly
\* once (n vertices in all).
C1_Totality == (Terminated /\ ValidOrder) => (pc = "done" /\ IsOrdering(out))

\* C2: on a graph with no vertex the generator ends with nothing yielded and
\* no round run; on the graph with one vertex and no edge it yields exactly
\* that vertex and ends.
C2_EmptyAndSingleton ==
    Terminated =>
        /\ (n = 0 => pc = "done" /\ out = << >> /\ i = 0 /\ blocks = << >>)
        /\ (n = 1 /\ edges = {} /\ ValidOrder => pc = "done" /\ out = <<0>>)

\* C3: in standard mode a fully produced sequence satisfies the LexBFS
\* neighbourhood-ordering law for the adjacency of G.
C3_LexBFSLaw ==
    (pc = "done" /\ ~minus) => LexLaw(out, Adjacent)

\* C3 witness: a standard run on four vertices is exhausted and some triple
\* z, x, y of its sequence needed an earlier w.
C3_Witness ==
    /\ pc = "done" /\ ~minus /\ n = MaxN /\ IsOrdering(out)
    /\ LexLawUsed(out, Adjacent)

\* C4: in complement mode a fully produced sequence satisfies the LexBFS
\* law for the adjacency of the complement of G.
C4_ComplementLaw ==
    (pc = "done" /\ minus) => LexLaw(out, CoAdjacent)

\* C4 witness: a complement-mode run on four vertices is exhausted, the
\* graph has edges that moved vertices, and some triple needed an earlier w.
C4_Witness ==
    /\ pc = "done" /\ minus /\ n = MaxN /\ IsOrdering(out)
    /\ Len(blocks) > 1
    /\ LexLawUsed(out, CoAdjacent)

\* C5: when initial_order names something that is no vertex of G, the run
\* never yields a vertex and never ends normally: it ends in an error.
C5_BadVertexIsAnError ==
    ~(Range(initial_order) \subseteq Vertices(n)) =>
        /\ out = << >>
        /\ pc # "done"
        /\ (pc # "start" => pc = "error")

\* C6: no run with valid arguments yields one or more vertices and then
\* fails.
C6_NoFailureAfterOutput == ~(ValidOrder /\ pc = "error" /\ out # << >>)

\* C7: a terminated run on a graph with a self-loop at x has yielded the
\* same sequence as the run on that graph without the self-loop.
C7_SelfLoopInvariance ==
    Terminated =>
        \A x \in Vertices(n) :
            {x} \in edges =>
                out = RunToEnd(Fresh(n, edges \ {{x}}, minus, initial_order)).out

\* The positions of the entries of s that are in the set P.
Filter(s, P) == {k \in DOMAIN s : s[k] \in P}

\* The entries of s in P come in the order t gives them, before the others.
PriorityFirst(s, t) ==
    \A a, b \in DOMAIN s :
        a < b =>
            /\ (s[b] \in Range(t) => s[a] \in Range(t))
            /\ (s[a] \in Range(t) /\ s[b] \in Range(t) =>
                    \A p, q \in DOMAIN t : (t[p] = s[a] /\ t[q] = s[b]) => p < q)

\* C8: if a precedes b in initial_order and b is yielded while a is not
\* yet, some vertex yielded before b is adjacent to exactly one of a and b;
\* and the first vertex yielded is initial_order[0].
C8_PriorityRespect ==
    /\ (initial_order # << >> /\ out # << >>) => out[1] = initial_order[1]
    /\ \A pa, pb \in DOMAIN initial_order :
       \A p \in DOMAIN out :
          (pa < pb /\ out[p] = initial_order[pb]
              /\ initial_order[pa] \notin {out[q] : q \in 1 .. p})
          => \E q \in 1 .. (p - 1) :
                Adjacent(out[q], initial_order[pa])
                    # Adjacent(out[q], initial_order[pb])

\* C8 witness: the second and third entries of initial_order were moved
\* together into a new set, then yielded in initial_order's order with
\* nothing yielded before them telling them apart.
C8_Witness ==
    /\ Len(initial_order) = MaxOrderLen /\ ValidOrder /\ Len(out) >= 3
    /\ out[2] = initial_order[2] /\ out[3] = initial_order[3]
    /\ Adjacent(out[1], out[2]) /\ Adjacent(out[1], out[3])
    /\ Len(blocks) > 1

\* C9: on the path 0-1-2-3-4 in standard mode the exhausted run has yielded
\* the order its first vertex determines: distances from the first vertex
\* never decrease, from 0 the order is 0,1,2,3,4 and from 4 it is 4,3,2,1,0.
C9_PathOrder ==
    (pc = "done") =>
        /\ IsOrdering(out)
        /\ (out[1] = 0 => out = <<0, 1, 2, 3, 4>>)
        /\ (out[1] = 4 => out = <<4, 3, 2, 1, 0>>)
        /\ \A a, b \in DOMAIN out :
              a < b =>
                (IF out[a] > out[1] THEN out[a] - out[1] ELSE out[1] - out[a])
                <= (IF out[b] > out[1] THEN out[b] - out[1] ELSE out[1] - out[b])

\* C9 witness: the run with the default tie-break is exhausted, having
\* yielded 0,1,2,3,4.
C9_Witness ==
    pc = "done" /\ initial_order = << >> /\ out = <<0, 1, 2, 3, 4>>

\* C10: once _sort_adjacency_lists has run, the list of every vertex u
\* holds exactly the neighbours of u, each once and nothing else, those
\* named in initial_order first and in that order.
C10_AdjacencyLists ==
    (pc \in {"loop", "neighbors"}) =>
        \A u \in Vertices(n) :
            /\ Range(neighborhoods[u]) = Nbrs(edges, u)
            /\ Distinct(neighborhoods[u])
            /\ PriorityFirst(neighborhoods[u], initial_order)

\* Ball(E, S, r): the nodes within r edges of a node of S.
RECURSIVE Ball(_, _, _)
Ball(E, S, r) ==
    IF r <= 0 THEN S
    ELSE LET B == Ball(E, S, r - 1) IN B \cup UNION {Nbrs(E, x) : x \in B}

\* AtDistance(E, S, r): the nodes whose least distance to a node of S is r.
AtDistance(E, S, r) ==
    IF r = 0 THEN S ELSE Ball(E, S, r) \ Ball(E, S, r - 1)

\* C11: every (node, successors) pair that bfs_successors yields has a
\* non-empty list of successors, whatever the graph, the source and the
\* depth limit.
C11_SuccessorsNonEmpty ==
    \A k \in DOMAIN bfs.succ_out : bfs.succ_out[k][2] # << >>

\* C12: on an undirected graph (self-loops and several sources included)
\* bfs_labeled_edges labels no edge "reverse" and reports no edge of G
\* twice; every triple is an edge of G labelled tree, forward or level,
\* and when the generator is exhausted every edge with an end reachable
\* from the sources has been reported.
C12_LabeledOnce ==
    lab.pc # "idle" =>
        LET Y == lab.yielded
            reported == [k \in DOMAIN Y |-> {Y[k][1], Y[k][2]}]
            reach == Ball(edges, Range(lab.sources), n)
        IN  /\ \A k \in DOMAIN Y :
                  /\ Y[k][3] \in {TREE_EDGE, FORWARD_EDGE, LEVEL_EDGE}
                  /\ Y[k][3] # REVERSE_EDGE
                  /\ reported[k] \in edges
            /\ Distinct(reported)
            /\ lab.pc = "done" =>
                  Range(reported) = {e \in edges : e \cap reach # {}}

\* An exhausted run from two sources that reported a self-loop, a level
\* edge between two nodes and a forward edge.
C12_Witness ==
    /\ lab.pc = "done"
    /\ Cardinality(Range(lab.sources)) = 2
    /\ \E k \in DOMAIN lab.yielded : lab.yielded[k][1] = lab.yielded[k][2]
    /\ \E k \in DOMAIN lab.yielded :
          /\ lab.yielded[k][1] # lab.yielded[k][2]
          /\ lab.yielded[k][3] = LEVEL_EDGE
    /\ \E k \in DOMAIN lab.yielded : lab.yielded[k][3] = FORWARD_EDGE

\* C13: when generic_bfs_edges (through bfs_edges) has run from the source
\* with depth limit d (len(G) when none is given), the children of the
\* yielded edges are exactly the nodes at distance 1 .. d from the source,
\* each once; no edge points to the source or to a node of an earlier edge,
\* every edge is an edge of G whose parent is one step nearer the source
\* than its child.  The per-edge part holds during the run as well.
C13_BfsTreeEdges ==
    bfs.pc \in {"while", "for", "children", "suspended", "done"} =>
        LET Y == bfs.yielded
            d == bfs.depth_limit
            S == {bfs.source}
            kids == [k \in DOMAIN Y |-> Y[k][2]]
        IN  /\ Distinct(kids)
            /\ \A k \in DOMAIN Y :
                  /\ {Y[k][1], Y[k][2]} \in edges
                  /\ Y[k][2] # bfs.source
                  /\ \A j \in 1 .. (k - 1) : Y[k][2] \notin {Y[j][1], Y[j][2]}
                  /\ \E r \in 1 .. d :
                        /\ Y[k][2] \in AtDistance(edges, S, r)
                        /\ Y[k][1] \in AtDistance(edges, S, r - 1)
            /\ bfs.pc = "done" => Range(kids) = Ball(edges, S, d) \ S

\* A finished run that the depth limit cut short: two edges or more were
\* yielded and a node lies one step beyond the limit.
C13_Witness ==
    /\ bfs.pc = "done"
    /\ Len(bfs.yielded) >= 2
    /\ AtDistance(edges, {bfs.source}, bfs.depth_limit + 1) # {}

\* C14: for a list of distinct sources in G, the k-th layer that
\* bfs_layers yields holds exactly the nodes whose least distance to a
\* source is k, each once, and is not empty; when the generator is
\* exhausted every reachable node is in a layer; and for a single source
\* descendants_at_distance(G, source, d) is exactly layer d as a set, the
\* empty set when there is none.
C14_Layers ==
    (lay.pc \in {"while", "suspended", "for", "children", "done"}
        /\ Distinct(lay.sources)) =>
        LET L == lay.layers
            S == Range(lay.sources)
        IN  /\ \A k \in DOMAIN L :
                  /\ L[k] # << >>
                  /\ Distinct(L[k])
                  /\ Range(L[k]) = AtDistance(edges, S, k - 1)
            /\ lay.pc = "done" =>
                  /\ UNION {Range(L[k]) : k \in DOMAIN L} = Ball(edges, S, n)
                  /\ Len(lay.sources) = 1 =>
                        \A d \in 0 .. n :
                            DescendantsAtDistance(L, d) = AtDistance(edges, S, d)

\* An exhausted run from two distinct sources that yielded three layers.
C14_Witness ==
    /\ lay.pc = "done"
    /\ Len(lay.sources) = 2 /\ Distinct(lay.sources)
    /\ Len(lay.layers) = 3

\* C15: when lexicographic_bfs is exhausted the dictionary `order` maps
\* every vertex to its rank: it has one entry per emitted vertex, and the
\* entries follow the emission sequence.
C15_OrderDictionary ==
    pc = "done" =>
        /\ DOMAIN order = Range(out)
        /\ \A a, b \in DOMAIN out : a < b => order[out[a]] < order[out[b]]

\* The blocks reached from block b by `next`, at most `fuel` of them.
RECURSIVE ChainFrom(_, _, _)
ChainFrom(B, b, fuel) ==
    IF b = None \/ fuel = 0 THEN << >>
    ELSE <<b>> \o ChainFrom(B, B[b].next, fuel - 1)

\* The chain of blocks that starts at first_set.
Chain(B, fs) == ChainFrom(B, fs, Len(B) + 1)

\* The vertices of the nodes reached from node x by `next`.
RECURSIVE MembersFrom(_, _, _)
MembersFrom(N, x, fuel) ==
    IF x = None \/ fuel = 0 THEN << >>
    ELSE <<N[x].vertex>> \o MembersFrom(N, N[x].next, fuel - 1)

\* The member list of block b.
Members(N, B, b) == MembersFrom(N, B[b].set_head, Len(N) + 1)

\* The member lists of the blocks of chain c, one after the other.
RECURSIVE Flatten(_, _, _)
Flatten(N, B, c) ==
    IF c = << >> THEN << >>
    ELSE Members(N, B, Head(c)) \o Flatten(N, B, Tail(c))

\* The generator is suspended at a yield, or has not begun its first round.
RoundBoundary == pc = "loop"

\* C17: at every round boundary the member lists of the blocks of the
\* chain, together with the vertices emitted so far, hold every vertex of
\* G exactly once.
C17_Partition ==
    RoundBoundary =>
        IsOrdering(Flatten(nodes, blocks, Chain(blocks, first_set)) \o out)

\* A round boundary with one vertex emitted and two blocks in the chain,
\* one of them with two members.
C17_Witness ==
    /\ RoundBoundary
    /\ Len(out) = 1
    /\ Len(Chain(blocks, first_set)) = 2
    /\ \E b \in Range(Chain(blocks, first_set)) :
          Len(Members(nodes, blocks, b)) = 2

\* C18: at every round boundary the chain is empty exactly when every
\* vertex has been emitted; and a block that loses its last member, by the
\* pop of its head or by the move of its last vertex, leaves the chain in
\* that same step: at no point of a run is a block without members
\* reachable from first_set.
C18_NoEmptyBlock ==
    /\ RoundBoundary => (first_set = None <=> Range(out) = Vertices(n))
    /\ pc \in {"loop", "neighbors", "done", "error"} =>
          \A b \in Range(Chain(blocks, first_set)) :
              /\ blocks[b].set_head # None
              /\ Members(nodes, blocks, b) # << >>

\* A round boundary with vertices still to emit, where two blocks have
\* lost all their members and neither is in the chain.
C18_Witness ==
    /\ RoundBoundary
    /\ first_set # None
    /\ \E a, b \in DOMAIN blocks :
          /\ a # b
          /\ blocks[a].set_head = None /\ blocks[b].set_head = None
          /\ {a, b} \cap Range(Chain(blocks, first_set)) = {}

\* The run from its start to the head of the while loop in round r.
RECURSIVE RunToRound(_, _)
RunToRound(s, r) ==
    IF s.pc \in {"done", "error"} \/ (s.pc = "loop" /\ s.i = r) THEN s
    ELSE RunToRound(StepOf(s), r)

\* The state in which the round now running began.
RoundStart == RunToRound(Fresh(n, edges, minus, initial_order), i)

\* The neighbours of v whose iteration of the inner loop is over, in the
\* order of the adjacency list.
Processed ==
    IF neighbor = None THEN neighborhoods[v]
    ELSE SubSeq(neighborhoods[v], 1, neighbor - 1)

\* C19: inside round i, with `old` the blocks that existed when the round
\* began and `new` those created since: two vertices moved in this round
\* share a new block exactly when they came from the same old block, so
\* each old block gets at most one new block; every new block has a moved
\* vertex; an old block is stamped last_processed = i exactly when a vertex
\* was moved out of it, and it was not stamped i before; and the members
\* of a new block are the moved neighbours in the order they were moved,
\* i.e. later ones were appended.
C19_OneSplitPerRound ==
    pc = "neighbors" =>
        LET R == RoundStart
            old == DOMAIN R.blocks
            new == DOMAIN blocks \ old
            moved == {x \in Vertices(n) : get_set[x] \in new}
            from(x) == R.get_set[x]
        IN  /\ R.pc = "loop" /\ R.i = i /\ R.out = out
            /\ \A x, y \in moved : from(x) = from(y) <=> get_set[x] = get_set[y]
            /\ \A T \in new : \E x \in moved : get_set[x] = T
            /\ \A S \in old :
                  /\ R.blocks[S].last_processed < i
                  /\ blocks[S].last_processed = i
                        <=> \E x \in moved : from(x) = S
            /\ \A T \in new :
                  Members(nodes, blocks, T) =
                      SelectSeq(Processed,
                                LAMBDA x : x \in moved /\ get_set[x] = T)

\* Inside a round a new block holds two vertices, the second one appended,
\* while their old block is still in the chain with a member left.
C19_Witness ==
    /\ pc = "neighbors"
    /\ \E T \in DOMAIN blocks \ DOMAIN RoundStart.blocks :
          /\ Len(Members(nodes, blocks, T)) = 2
          /\ \E S \in Range(Chain(blocks, first_set)) :
                /\ S # T
                /\ S = RoundStart.get_set[Members(nodes, blocks, T)[1]]

\* Sequence c with block T put immediately before (or after) block S.
RECURSIVE InsertBy(_, _, _, _)
InsertBy(c, S, T, before) ==
    IF c = << >> THEN << >>
    ELSE IF Head(c) = S
         THEN (IF before THEN <<T, S>> ELSE <<S, T>>) \o Tail(c)
         ELSE <<Head(c)>> \o InsertBy(Tail(c), S, T, before)

\* An iteration of the inner loop that creates a block.
SplitStep ==
    pc = "neighbors" /\ pc' = "neighbors" /\ Len(blocks') = Len(blocks) + 1

\* C20: a step that creates a block T out of block S puts T in the chain
\* immediately before S in standard mode and immediately after S in
\* complement mode (in the place of S when the same step empties S and
\* unlinks it).  In standard mode first_set becomes T exactly when S was
\* first_set, and no other iteration of the inner loop changes first_set.
\* In complement mode first_set changes, in the pop or in the inner loop,
\* only when the block it names has just lost its last member.
C20_SplitPlacement ==
    [][ /\ SplitStep =>
            LET S == get_set[neighborhoods[v][neighbor]]
                T == Len(blocks')
                placed == InsertBy(Chain(blocks, first_set), S, T, ~minus)
                gone == blocks'[S].set_head = None
            IN  /\ S \in Range(Chain(blocks, first_set))
                /\ Chain(blocks', first_set') =
                      IF gone THEN SelectSeq(placed, LAMBDA b : b # S)
                      ELSE placed
                /\ ~gone =>
                      IF minus
                      THEN blocks'[S].next = T /\ blocks'[T].prev = S
                      ELSE blocks'[T].next = S /\ blocks'[S].prev = T
                /\ ~minus => (first_set' = T <=> S = first_set)
        /\ (pc = "neighbors" /\ ~minus /\ first_set' # first_set) =>
              /\ SplitStep
              /\ first_set' = Len(blocks')
              /\ get_set[neighborhoods[v][neighbor]] = first_set
        /\ (pc \in {"loop", "neighbors"} /\ minus /\ first_set' # first_set) =>
              /\ blocks[first_set].set_head # None
              /\ blocks'[first_set].set_head = None
              /\ first_set' = blocks'[first_set].next
      ]_vars

\* Standard mode, inside a round: the block created in this round is the
\* head of the chain and its source block, still with a member, follows it.
C20_Witness ==
    /\ pc = "neighbors" /\ ~minus
    /\ first_set # None
    /\ first_set \notin DOMAIN RoundStart.blocks
    /\ blocks[first_set].next # None
    /\ blocks[first_set].next =
          RoundStart.get_set[Members(nodes, blocks, first_set)[1]]
    /\ blocks[blocks[first_set].next].prev = first_set

\* The place in the chain of the block whose member list holds x, counted
\* from first_set; 0 when no block of the chain holds x.
BlockPos(N, B, fs, x) ==
    LET c == Chain(B, fs)
        at == {k \in DOMAIN c : x \in Range(Members(N, B, c[k]))}
    IN  IF at = {} THEN 0 ELSE CHOOSE k \in at : \A j \in at : k <= j

\* The place of x in the emitted sequence, 0 when x is not emitted.
EmitPos(s, x) ==
    IF x \in Range(s) THEN CHOOSE k \in DOMAIN s : s[k] = x ELSE 0

\* The run at the boundary that opened round r.
Boundary(r) == RunToRound(Fresh(n, edges, minus, initial_order), r)

\* C21: if at the boundary that opened an earlier round r vertex x was in
\* a block strictly earlier in the chain than the block of y, then at the
\* present boundary either x has been emitted, and before y if y has been
\* emitted too, or x and y are both still in the chain and x's block is
\* strictly earlier than y's; y is never emitted while x is not.
C21_ChainOrderIsPriority ==
    pc \in {"loop", "done"} =>
        \A r \in 1 .. (i - 1) :
            LET P == Boundary(r) IN
            /\ P.pc = "loop"
            /\ \A x, y \in Vertices(n) :
                  LET px == BlockPos(P.nodes, P.blocks, P.first_set, x)
                      py == BlockPos(P.nodes, P.blocks, P.first_set, y)
                      qx == BlockPos(nodes, blocks, first_set, x)
                      qy == BlockPos(nodes, blocks, first_set, y)
                  IN  (px # 0 /\ py # 0 /\ px < py) =>
                        /\ EmitPos(out, y) # 0 =>
                              (EmitPos(out, x) # 0 /\ EmitPos(out, x) < EmitPos(out, y))
                        /\ EmitPos(out, x) = 0 =>
                              (qx # 0 /\ qy # 0 /\ qx < qy)

\* A boundary after one at which x was in an earlier block than y, with x
\* and y both still waiting in the chain, in that order.
C21_Witness ==
    /\ pc = "loop" /\ i >= 3
    /\ \E x, y \in Vertices(n) \ Range(out) :
          LET P == Boundary(i - 1) IN
          /\ BlockPos(P.nodes, P.blocks, P.first_set, x) # 0
          /\ BlockPos(P.nodes, P.blocks, P.first_set, x)
                < BlockPos(P.nodes, P.blocks, P.first_set, y)
          /\ BlockPos(nodes, blocks, first_set, x)
                < BlockPos(nodes, blocks, first_set, y)

\* The nodes reached from node x by `next`.
RECURSIVE NodesFrom(_, _, _)
NodesFrom(N, x, fuel) ==
    IF x = None \/ fuel = 0 THEN << >>
    ELSE <<x>> \o NodesFrom(N, N[x].next, fuel - 1)

\* The position nodes of the member list of block b.
MemberNodes(N, B, b) == NodesFrom(N, B[b].set_head, Len(N) + 1)

\* C22: at every round boundary get_set[u] is None exactly when u has
\* been emitted; otherwise it is a block of the chain whose member list
\* holds u and whose lookup maps u to the node of that list that carries
\* u.  In every state of the loop an emitted vertex, and the vertex popped
\* in the round now running, has no owner, is in no member list and in no
\* lookup of the chain: it is never moved or inserted again.
C22_OwnershipExact ==
    /\ RoundBoundary =>
          \A u \in Vertices(n) :
              /\ get_set[u] = None <=> u \in Range(out)
              /\ get_set[u] # None =>
                    LET b == get_set[u] IN
                    /\ b \in Range(Chain(blocks, first_set))
                    /\ u \in Range(Members(nodes, blocks, b))
                    /\ u \in DOMAIN blocks[b].lookup
                    /\ blocks[b].lookup[u] \in Range(MemberNodes(nodes, blocks, b))
                    /\ nodes[blocks[b].lookup[u]].vertex = u
    /\ pc \in {"loop", "neighbors", "done", "error"} /\ n > 0 =>
          \A u \in Range(out) \cup (IF pc = "neighbors" THEN {v} ELSE {}) :
              /\ u \in DOMAIN get_set => get_set[u] = None
              /\ \A b \in Range(Chain(blocks, first_set)) :
                    /\ u \notin Range(Members(nodes, blocks, b))
                    /\ u \notin DOMAIN blocks[b].lookup

\* A round boundary with an emitted vertex and two waiting vertices that
\* have different owners, one of them moved there by a split.
C22_Witness ==
    /\ RoundBoundary
    /\ out # << >>
    /\ \E x, y \in Vertices(n) :
          /\ get_set[x] # None /\ get_set[y] # None
          /\ get_set[x] # get_set[y]
          /\ get_set[x] > 1

\* C23: inside round i, every block S that still has members and is
\* stamped last_processed = i existed when the round began, and the block
\* next to it on the insertion side (prev in standard mode, next in
\* complement mode) was created in this round, is in the chain, has
\* members, points back to S, and holds exactly the vertices moved out of
\* S in this round; so the reuse branch always finds the block split from
\* S.  A block created in round i is never stamped, i.e. never split, in
\* round i, and no vertex occurs twice among the processed neighbours.
C23_ReuseTarget ==
    pc = "neighbors" =>
        LET R == RoundStart
            old == DOMAIN R.blocks
            new == DOMAIN blocks \ old
            d1 == Directions(minus).d1
            d2 == Directions(minus).d2
        IN  /\ \A S \in DOMAIN blocks :
                  (blocks[S].last_processed = i /\ blocks[S].set_head # None) =>
                      LET T == blocks[S][d2] IN
                      /\ S \in old
                      /\ T # None /\ T \in new
                      /\ blocks[T].set_head # None /\ blocks[T].set_tail # None
                      /\ blocks[T][d1] = S
                      /\ {S, T} \subseteq Range(Chain(blocks, first_set))
                      /\ Range(Members(nodes, blocks, T)) =
                            {x \in Vertices(n) :
                                R.get_set[x] = S /\ get_set[x] # S /\ x # v}
            /\ \A T \in new : blocks[T].last_processed = 0
            /\ Distinct(Processed)

\* Complement mode, inside a round: the block after S was created in this
\* round and has received a second vertex by the reuse branch, and S
\* still has a member.
C23_Witness ==
    /\ pc = "neighbors" /\ minus
    /\ \E S \in DOMAIN RoundStart.blocks :
          /\ blocks[S].last_processed = i
          /\ blocks[S].set_head # None
          /\ blocks[S].next # None
          /\ Len(Members(nodes, blocks, blocks[S].next)) = 2

\* The blocks reached from block b by `prev`, at most `fuel` of them.
RECURSIVE ChainBack(_, _, _)
ChainBack(B, b, fuel) ==
    IF b = None \/ fuel = 0 THEN << >>
    ELSE <<b>> \o ChainBack(B, B[b].prev, fuel - 1)

\* C24: at every round boundary the linked structure is well formed.  No
\* block precedes first_set, and it is the only block of the chain without
\* a predecessor; a block of the chain and its successor name each other
\* by next and prev, and no block of the chain occurs twice.  In every
\* block of the chain the node set_head has no predecessor, the walk by
\* `next` from set_head ends at set_tail, each node but the first names the
\* node before it by prev, and the vertices visited are, each once,
\* exactly the keys of lookup.  Inside a round the popped vertex v is the
\* first member of the block that was first_set when the round began.
C24_WellFormed ==
    /\ RoundBoundary =>
          LET c == Chain(blocks, first_set) IN
          /\ first_set # None => blocks[first_set].prev = None
          /\ Distinct(c)
          /\ \A k \in DOMAIN c :
                /\ blocks[c[k]].prev = None <=> k = 1
                /\ k > 1 => blocks[c[k]].prev = c[k - 1]
                /\ k < Len(c) => blocks[blocks[c[k]].next].prev = c[k]
                /\ k = Len(c) => blocks[c[k]].next = None
                /\ LET b == blocks[c[k]]
                       ns == MemberNodes(nodes, blocks, c[k])
                       ms == Members(nodes, blocks, c[k])
                   IN  /\ ns # << >>
                       /\ Distinct(ns) /\ Distinct(ms)
                       /\ ns[1] = b.set_head
                       /\ nodes[b.set_head].prev = None
                       /\ ns[Len(ns)] = b.set_tail
                       /\ nodes[b.set_tail].next = None
                       /\ \A j \in 2 .. Len(ns) : nodes[ns[j]].prev = ns[j - 1]
                       /\ Range(ms) = DOMAIN b.lookup
                       /\ \A j \in DOMAIN ns : b.lookup[ms[j]] = ns[j]
          /\ c # << >> =>
                ChainBack(blocks, c[Len(c)], Len(blocks) + 1)
                    = [k \in DOMAIN c |-> c[Len(c) + 1 - k]]
    /\ pc = "neighbors" =>
          LET R == RoundStart IN
          v = Members(R.nodes, R.blocks, R.first_set)[1]

\* A round boundary after two rounds with two blocks in the chain, the
\* first of them created by a split and more blocks than that unlinked.
C24_Witness ==
    /\ RoundBoundary
    /\ Len(out) = 2
    /\ Len(Chain(blocks, first_set)) = 2
    /\ first_set > 1
    /\ Len(blocks) >= 4

====
